---- MODULE Spec2Model ----
(***************************************************************************)
(* BrainFucking Gone (src/src/bfg.py): the interpreter object, its         *)
(* instruction handlers and the session loop of run(), as a state machine. *)
(*                                                                         *)
(* Representation.  A Python str is the sequence of its code points, so a  *)
(* character is a number (ord) and a one-character string is a sequence of *)
(* length one (chr).  The Python value None is modelled by a value of the  *)
(* same shape that no real value can take: None for strings, NoPos for     *)
(* positions, NoSym for symbols.  A dict is the set of its <<key, value>>  *)
(* pairs.  The list self.mem is its length together with the pairs         *)
(* <<index, value>> of its non-zero cells.                                 *)
(***************************************************************************)
EXTENDS Integers, Sequences, FiniteSets, TLC

VARIABLES
  bfg,     \* the BrainFuckingGone instance: its fields, plus the exception
           \* in flight (exc) and what it wrote to sys.stdout and sys.stderr
  files,   \* run(): the local list `files`, each file as its list of lines
  shell,   \* run(): the local flag `shell`
  rpc,     \* where control is: "while", "fetch", "exec", "finish", "done", "error"
  eof,     \* the standard input has been closed
  lines,   \* history: the program lines the shell has read so far
  last     \* history: the instruction the dispatcher executed last, and the
           \* pointer and cell it found

vars == <<bfg, files, shell, rpc, eof, lines, last>>

(***************************************************************************)
(* Bounds of the model.                                                    *)
(***************************************************************************)
MaxLines     == 3   \* program lines read by the shell in one session
MaxLineLen   == 3   \* symbols in one shell line
MaxProg      == 4   \* symbols in the shell's program buffer
MaxSteps     == 40  \* value of self.count up to which execution is followed
MaxNestLines == 2   \* the same four for the sessions of SpecNest
MaxNestLine  == 3
MaxNestProg  == 5
MaxNestSteps == 12
MaxByteProg  == 4   \* symbols of a program of SpecByte
MaxByteSteps == 600 \* value of self.count up to which SpecByte follows it
MaxFiles   == 2     \* script files given to a batch run
MaxBatch   == 2     \* symbols in the files of a batch run, all together
MaxInput   == 2     \* characters in one line typed for the input instruction
MaxMulA    == 8     \* rounds of the loop of a program of SpecMul
MaxMulB    == 8     \* additions in one round of that loop
MaxStrictProg  == 2      \* symbols of a short program of SpecStrict
MaxStrictSteps == 120100 \* value of self.count up to which SpecStrict follows it

(***************************************************************************)
(* Values.                                                                 *)
(***************************************************************************)
None  == <<-1>>
NoPos == -1
NoSym == -1
EOF   == <<-2>>     \* input() raised EOFError

loopsLeft     == 91     \* [
loopsRight    == 93     \* ]
ptrsLeft      == 60     \* <
ptrsRight     == 62     \* >
bytesLeft     == 45     \* -
bytesRight    == 43     \* +
iosLeft       == 44     \* ,
iosRight      == 46     \* .
commentsLeft  == 35     \* #
commentsRight == 10     \* \n
memmax        == 30000
minmax        == <<0, 255>>

NoExc == [kind |-> "none", pos |-> NoPos, sym |-> NoSym, msg |-> ""]

ord(c) == c[1]
chr(v) == <<v>>
abs(n) == IF n < 0 THEN 0 - n ELSE n

(***************************************************************************)
(* self.mem, a list of integers.                                           *)
(***************************************************************************)
memNew(n)        == [len |-> n, nz |-> {}]
memGet(m, i)     == IF \E e \in m.nz : e[1] = i
                    THEN (CHOOSE e \in m.nz : e[1] = i)[2]
                    ELSE 0
memSet(m, i, v)  == [m EXCEPT !.nz = {e \in @ : e[1] # i}
                                     \cup (IF v = 0 THEN {} ELSE {<<i, v>>})]
memAppend(m, v)  == [memSet(m, m.len, v) EXCEPT !.len = @ + 1]

(***************************************************************************)
(* self.loops, a dict.                                                     *)
(***************************************************************************)
dictGet(d, k)    == IF \E e \in d : e[1] = k
                    THEN (CHOOSE e \in d : e[1] = k)[2]
                    ELSE NoPos
dictSet(d, k, v) == {e \in d : e[1] # k} \cup {<<k, v>>}

(***************************************************************************)
(* __init__ and reset.                                                     *)
(***************************************************************************)
New ==
  [count |-> 0, stdout |-> None, remain |-> None, ins |-> None, inslen |-> 0,
   keep |-> FALSE, strict |-> FALSE, debug |-> FALSE,
   \* fields first assigned by reset()
   buf |-> None, loops |-> {}, sr |-> 0, pc |-> 0, mem |-> memNew(0), memlen |-> 0,
   \* not fields: the exception raised, sys.stdout, the summary on sys.stderr
   exc |-> NoExc, printed |-> <<>>, summary |-> <<>>]

\* reset() clearing everything in persistent mode too
Reset_always(s, force) ==
  LET t == [s EXCEPT !.buf = None]
      m == memNew(IF ~s.strict THEN 1 ELSE memmax)
  IN  [t EXCEPT !.count = 0, !.ins = None, !.loops = {}, !.sr = 0, !.pc = 0,
                !.mem = m, !.inslen = 0,
                !.memlen = IF s.strict THEN memmax ELSE m.len]

Reset(s, force) ==
  LET t == [s EXCEPT !.buf = None]
      m == memNew(IF ~s.strict THEN 1 ELSE memmax)
  IN  IF force \/ ~s.keep
      THEN [t EXCEPT !.count = 0, !.ins = None, !.loops = {}, !.sr = 0, !.pc = 0,
                     !.mem = m, !.inslen = 0,
                     !.memlen = IF s.strict THEN memmax ELSE m.len]
      ELSE t

(***************************************************************************)
(* instruction, jump, dbg, value.                                          *)
(***************************************************************************)
Instruction(s, p) ==
  LET q == IF p # NoPos /\ p # 0 THEN p ELSE s.pc IN
  IF q < s.inslen THEN s.ins[q + 1] ELSE NoSym

Jump(s, to) == [s EXCEPT !.pc = IF to # NoPos THEN to ELSE s.pc + 1]

\* the record of one step (lines 227-233) goes to sys.stderr and is not kept
Dbg(s, rep) ==
  LET c == [s EXCEPT !.count = @ + 1] IN
  IF c.debug /\ rep
  THEN [c EXCEPT !.summary = <<c.inslen, c.count, c.memlen>>]
  ELSE c

Value(s)       == memGet(s.mem, s.sr)
SetValue(s, v) == [s EXCEPT !.mem = memSet(@, s.sr, v)]

(***************************************************************************)
(* Loops.                                                                  *)
(***************************************************************************)
RECURSIVE scan(_, _, _, _, _, _)
\* the body of `for i in range(start, end, step)`, from index i on, with the
\* nesting counter at n: the sibling found, or NoPos
scan(s, i, end, step, char, n) ==
  IF (step = 1 /\ i >= end) \/ (step = -1 /\ i <= end) THEN NoPos
  ELSE IF Instruction(s, i) = Instruction(s, NoPos)
       THEN scan(s, i + step, end, step, char, n + 1)
  ELSE IF Instruction(s, i) = char
       THEN IF n > 0 THEN scan(s, i + step, end, step, char, n - 1) ELSE i
  ELSE scan(s, i + step, end, step, char, n)

Sibling(s) ==
  LET isEnd == Instruction(s, NoPos) = loopsRight
      char  == IF isEnd THEN loopsLeft ELSE loopsRight
      start == s.pc + 1
      end   == IF isEnd THEN 0 ELSE s.inslen
      step  == IF isEnd THEN -1 ELSE 1
  IN  scan(s, start, end, step, char, 0)

RegisterLoop(s) ==
  LET sibling == Sibling(s) IN
  IF sibling = NoPos
  THEN [s EXCEPT !.exc = [kind |-> "SyntaxError", pos |-> s.pc,
                          sym |-> Instruction(s, NoPos), msg |-> "dangling"]]
  ELSE [s EXCEPT !.loops = dictSet(dictSet(@, s.pc, sibling), sibling, s.pc)]

\* loop() never going back from a closing bracket
Loop_once(s) ==
  LET r == IF dictGet(s.loops, s.pc) = NoPos THEN RegisterLoop(s) ELSE s IN
  IF r.exc # NoExc THEN r
  ELSE IF Value(r) = 0 /\ Instruction(r, NoPos) = loopsLeft
       THEN Jump(r, dictGet(r.loops, r.pc))
       ELSE r

\* loop() with its condition negated
Loop_inverted(s) ==
  LET r == IF dictGet(s.loops, s.pc) = NoPos THEN RegisterLoop(s) ELSE s IN
  IF r.exc # NoExc THEN r
  ELSE IF (Value(r) # 0) # (Instruction(r, NoPos) = loopsRight)
       THEN Jump(r, dictGet(r.loops, r.pc))
       ELSE r

Loop(s) ==
  LET r == IF dictGet(s.loops, s.pc) = NoPos THEN RegisterLoop(s) ELSE s IN
  IF r.exc # NoExc THEN r
  ELSE IF ~((Value(r) # 0) # (Instruction(r, NoPos) = loopsRight))
       THEN Jump(r, dictGet(r.loops, r.pc))
       ELSE r

(***************************************************************************)
(* Pointer and byte.                                                       *)
(***************************************************************************)
\* segflt() appending a cell whatever the mode
Segflt_grows(s) ==
  IF s.sr >= s.memlen
  THEN [s EXCEPT !.mem = memAppend(@, 0), !.memlen = @ + 1]
  ELSE IF s.sr < 0
       THEN [s EXCEPT !.exc = [kind |-> "Segfault", pos |-> s.pc,
                               sym |-> Instruction(s, NoPos),
                               msg |-> "negative data pointer value"]]
       ELSE s

\* segflt() growing the tape one move too late
Segflt_late(s) ==
  IF s.sr > s.memlen
  THEN IF s.strict
       THEN [s EXCEPT !.exc = [kind |-> "Segfault", pos |-> s.pc,
                               sym |-> Instruction(s, NoPos),
                               msg |-> "data pointer value above the maximum (strict mode: on)"]]
       ELSE [s EXCEPT !.mem = memAppend(@, 0), !.memlen = @ + 1]
  ELSE IF s.sr < 0
       THEN [s EXCEPT !.exc = [kind |-> "Segfault", pos |-> s.pc,
                               sym |-> Instruction(s, NoPos),
                               msg |-> "negative data pointer value"]]
       ELSE s

Segflt(s) ==
  IF s.sr >= s.memlen
  THEN IF s.strict
       THEN [s EXCEPT !.exc = [kind |-> "Segfault", pos |-> s.pc,
                               sym |-> Instruction(s, NoPos),
                               msg |-> "data pointer value above the maximum (strict mode: on)"]]
       ELSE [s EXCEPT !.mem = memAppend(@, 0), !.memlen = @ + 1]
  ELSE IF s.sr < 0
       THEN [s EXCEPT !.exc = [kind |-> "Segfault", pos |-> s.pc,
                               sym |-> Instruction(s, NoPos),
                               msg |-> "negative data pointer value"]]
       ELSE s

Ptr(s) ==
  Segflt(IF Instruction(s, NoPos) = ptrsLeft THEN [s EXCEPT !.sr = @ - 1]
         ELSE IF Instruction(s, NoPos) = ptrsRight THEN [s EXCEPT !.sr = @ + 1]
         ELSE s)

\* the over/underflow of byte() wrapping around on both sides
Wrap_modulo(newValue) ==
  IF newValue < minmax[1] THEN minmax[2] - abs(newValue) + 1
  ELSE IF newValue > minmax[2] THEN minmax[1] + abs(newValue) - 1 - minmax[2]
  ELSE newValue

\* the over/underflow of byte()
Wrap(newValue) ==
  IF newValue < minmax[1] THEN minmax[2] - abs(newValue) + 1
  ELSE IF newValue > minmax[2] THEN minmax[1] + abs(newValue) - 1
  ELSE newValue

Byte(s) ==
  LET newValue == IF Instruction(s, NoPos) = bytesLeft THEN Value(s) - 1
                  ELSE IF Instruction(s, NoPos) = bytesRight THEN Value(s) + 1
                  ELSE Value(s)
  IN  SetValue(s, Wrap(newValue))

(***************************************************************************)
(* Input and output.  rd is what the call of input() gives, if inp makes   *)
(* one: the line read, or EOF.                                             *)
(***************************************************************************)
\* inp() reaches a call of input()
CallsInput(s, isInstruction) == isInstruction \/ s.remain = None

\* the branch `self.remain is not None` of inp
TakeRemain(s) ==
  IF Len(s.remain) = 0
  THEN [s   |-> [s EXCEPT !.exc = [kind |-> "IndexError", pos |-> s.pc,
                                   sym |-> Instruction(s, NoPos),
                                   msg |-> "string index out of range"]],
        ret |-> FALSE]
  ELSE [s   |-> [s EXCEPT !.buf = chr(s.remain[1]),
                          !.remain = IF Len(Tail(s.remain)) = 0 THEN None
                                     ELSE Tail(s.remain)],
        ret |-> TRUE]

Inp(s, isInstruction, rd) ==
  IF isInstruction
  THEN IF rd = EOF THEN [s |-> s, ret |-> FALSE]
       ELSE [s |-> [s EXCEPT !.buf = rd], ret |-> TRUE]
  ELSE IF s.remain # None THEN TakeRemain(s)
  ELSE IF rd = EOF THEN [s |-> s, ret |-> FALSE]
       ELSE TakeRemain([s EXCEPT !.remain = rd])

\* inout() storing 0 and going on when the input is closed
Inout_zeroAtEof(s, rd) ==
  IF Instruction(s, NoPos) = iosRight
  THEN LET output == chr(Value(s)) IN
       [s   |-> IF s.debug /\ s.stdout # None
                THEN [s EXCEPT !.stdout = @ \o output]
                ELSE [s EXCEPT !.printed = @ \o output
                                 \o (IF ~s.debug THEN <<>> ELSE <<commentsRight>>)],
        ret |-> FALSE]
  ELSE IF Instruction(s, NoPos) = iosLeft
  THEN LET r == Inp(s, FALSE, rd) IN
       IF r.s.exc # NoExc THEN r
       ELSE IF ~r.ret THEN [s |-> SetValue(r.s, 0), ret |-> FALSE]
       ELSE [s |-> [SetValue(r.s, ord(r.s.buf)) EXCEPT !.buf = None], ret |-> FALSE]
  ELSE [s |-> s, ret |-> FALSE]

Inout(s, rd) ==
  IF Instruction(s, NoPos) = iosRight
  THEN LET output == chr(Value(s)) IN
       [s   |-> IF s.debug /\ s.stdout # None
                THEN [s EXCEPT !.stdout = @ \o output]
                ELSE [s EXCEPT !.printed = @ \o output
                                 \o (IF ~s.debug THEN <<>> ELSE <<commentsRight>>)],
        ret |-> FALSE]
  ELSE IF Instruction(s, NoPos) = iosLeft
  THEN LET r == Inp(s, FALSE, rd) IN
       IF r.s.exc # NoExc THEN r
       ELSE IF ~r.ret THEN [s |-> r.s, ret |-> TRUE]
       ELSE [s |-> [SetValue(r.s, ord(r.s.buf)) EXCEPT !.buf = None], ret |-> FALSE]
  ELSE [s |-> s, ret |-> FALSE]

(***************************************************************************)
(* Comments.                                                               *)
(***************************************************************************)
RECURSIVE IgnoreUntil(_, _)
IgnoreUntil(s, until) ==
  IF Instruction(s, NoPos) # until
  THEN LET t == Jump(s, NoPos) IN
       IF t.pc < t.inslen THEN IgnoreUntil(t, until) ELSE t
  ELSE s

(***************************************************************************)
(* The dispatcher.                                                         *)
(***************************************************************************)
Translate(s, rd) ==
  LET c == Instruction(s, NoPos) IN
  IF c \in {loopsLeft, loopsRight}            THEN [s |-> Loop(s), ret |-> FALSE]
  ELSE IF c \in {ptrsLeft, ptrsRight}         THEN [s |-> Ptr(s),  ret |-> FALSE]
  ELSE IF c \in {bytesLeft, bytesRight}       THEN [s |-> Byte(s), ret |-> FALSE]
  ELSE IF c \in {iosLeft, iosRight}           THEN Inout(s, rd)
  ELSE IF c \in {commentsLeft, commentsRight} THEN [s |-> IgnoreUntil(s, commentsRight), ret |-> FALSE]
  ELSE [s |-> s, ret |-> FALSE]

\* one round of the loop of execute(): brk when the loop is left
ExecIter(s, rd) ==
  LET t == Translate(s, rd) IN
  IF t.s.exc # NoExc \/ t.ret THEN [s |-> t.s, brk |-> TRUE]
  ELSE LET j == Jump(Dbg(t.s, FALSE), NoPos) IN
       [s |-> j, brk |-> ~(j.pc < j.inslen)]

\* execute() after its loop
ExecuteEnd(s) == Reset(Dbg(s, TRUE), FALSE)

RECURSIVE Execute(_, _)
\* execute() as a whole, on a program that asks for no input: the instance
\* it leaves, the exception in exc if one was raised; "unfinished" there if
\* the loop takes more than n rounds
Execute(s, n) ==
  IF n = 0 THEN [s EXCEPT !.exc = [NoExc EXCEPT !.kind = "unfinished"]]
  ELSE LET r == ExecIter(s, EOF) IN
       IF r.s.exc # NoExc THEN r.s
       ELSE IF r.brk THEN ExecuteEnd(r.s)
       ELSE Execute(r.s, n - 1)

(***************************************************************************)
(* Program sources.  A file is the list of its lines as readlines() gives  *)
(* them, each with its line terminator.                                    *)
(***************************************************************************)
WhiteSpace == {9, 10, 11, 12, 13, 32}

RECURSIVE lstrip(_)
lstrip(l) == IF Len(l) > 0 /\ Head(l) \in WhiteSpace THEN lstrip(Tail(l)) ELSE l

RECURSIVE rstrip(_)
rstrip(l) == IF Len(l) > 0 /\ l[Len(l)] \in WhiteSpace
             THEN rstrip(SubSeq(l, 1, Len(l) - 1)) ELSE l

strip(l) == rstrip(lstrip(l))

RECURSIVE splitHead(_, _)
\* l.split(c)[0]
splitHead(l, c) == IF Len(l) = 0 \/ Head(l) = c THEN <<>>
                   ELSE <<Head(l)>> \o splitHead(Tail(l), c)

startswith(l, c) == Len(l) > 0 /\ Head(l) = c

RECURSIVE joinLines(_)
\* "".join([...]) over the lines of one file
joinLines(f) ==
  IF Len(f) = 0 THEN <<>>
  ELSE (IF ~startswith(Head(f), commentsLeft)
        THEN splitHead(strip(Head(f)), commentsLeft) ELSE <<>>)
       \o joinLines(Tail(f))

RECURSIVE joinFiles(_)
joinFiles(paths) == IF Len(paths) = 0 THEN <<>>
                    ELSE joinLines(Head(paths)) \o joinFiles(Tail(paths))

\* script() reading all the files in every mode
Script_all(s, paths) ==
  IF Len(paths) > 0
  THEN LET prog == joinFiles(paths) IN
       [s |-> [s EXCEPT !.inslen = Len(prog)], prog |-> prog]
  ELSE [s |-> s, prog |-> None]

Script(s, paths) ==
  IF Len(paths) > 0
  THEN LET prog == joinFiles(IF ~s.keep THEN SubSeq(paths, 1, 1) ELSE paths) IN
       [s |-> [s EXCEPT !.inslen = Len(prog)], prog |-> prog]
  ELSE [s |-> s, prog |-> None]

\* shell() taking the length of the line for the length of the program
Shell_lengthOfLine(s, rd) ==
  LET r == Inp(s, TRUE, rd) IN
  IF r.ret
  THEN LET b == IF r.s.buf # None /\ Len(r.s.buf) > 0 THEN r.s.buf ELSE <<>> IN
       [s    |-> [r.s EXCEPT !.inslen = Len(b), !.buf = None],
        prog |-> (IF r.s.ins # None /\ Len(r.s.ins) > 0 THEN r.s.ins ELSE <<>>) \o b]
  ELSE [s |-> r.s, prog |-> None]

Shell(s, rd) ==
  LET r == Inp(s, TRUE, rd) IN
  IF r.ret
  THEN LET b == IF r.s.buf # None /\ Len(r.s.buf) > 0 THEN r.s.buf ELSE <<>> IN
       [s    |-> [r.s EXCEPT !.inslen = @ + Len(b), !.buf = None],
        prog |-> (IF r.s.ins # None /\ Len(r.s.ins) > 0 THEN r.s.ins ELSE <<>>) \o b]
  ELSE [s |-> r.s, prog |-> None]

(***************************************************************************)
(* run(): the state when its loop is first reached, the program being      *)
(* started from the command line (the global `args` of line 71 is set).    *)
(***************************************************************************)
Setup(fl, persistent, debug, strict) ==
  LET sh == Len(fl) = 0
      a  == [New EXCEPT !.strict = strict,
                        !.debug  = debug \/ sh,
                        !.stdout = IF ~(debug \/ sh) \/ sh THEN None ELSE <<>>,
                        !.keep   = persistent \/ sh]
      b  == Script(a, fl).s
  IN  [Reset(b, TRUE) EXCEPT !.ins = <<>>]

NoLast == [pc |-> NoPos, sym |-> NoSym, sr |-> 0, val |-> 0]

InitRun(fl, persistent, debug, strict) ==
  /\ bfg   = Setup(fl, persistent, debug, strict)
  /\ files = fl
  /\ shell = (Len(fl) = 0)
  /\ rpc   = "while"
  /\ eof   = FALSE
  /\ lines = <<>>
  /\ last  = NoLast

(***************************************************************************)
(* The steps of run() and execute().                                       *)
(***************************************************************************)
\* the strings of at most n characters of S
Strings(S, n) == {l : l \in UNION {[1..k -> S] : k \in 0..n}}

\* `while(shell or len(files) > 0)` holds
While ==
  /\ rpc = "while"
  /\ shell \/ Len(files) > 0
  /\ rpc' = "fetch"
  /\ UNCHANGED <<bfg, files, shell, eof, lines, last>>

\* the loop of run() is left: lines 91-95
RunEnd ==
  /\ rpc = "while"
  /\ ~(shell \/ Len(files) > 0)
  /\ rpc' = "done"
  /\ bfg' = [bfg EXCEPT !.printed = IF bfg.stdout # None
                                    THEN @ \o bfg.stdout \o <<commentsRight>>
                                    ELSE @ \o <<commentsRight>>]
  /\ UNCHANGED <<files, shell, eof, lines, last>>

\* `self.ins = self.shell()`, the user typing a line of Typed or closing
\* the input
FetchShell(Typed, maxLines, maxProg) ==
  /\ rpc = "fetch"
  /\ shell
  /\ \E rd \in {EOF} \cup
               {l \in Typed : /\ ~eof
                              /\ Len(lines) < maxLines
                              /\ bfg.inslen + Len(l) <= maxProg} :
       LET r == Shell(bfg, rd) IN
       /\ bfg'   = [r.s EXCEPT !.ins = r.prog]
       /\ eof'   = (rd = EOF)
       /\ lines' = IF rd = EOF THEN lines ELSE Append(lines, rd)
       /\ rpc'   = IF r.prog # None THEN "exec" ELSE "while"
  /\ UNCHANGED <<files, shell, last>>

\* `self.ins = self.script(files); files = files[1:]`
FetchScript ==
  /\ rpc = "fetch"
  /\ ~shell
  /\ LET r == Script(bfg, files) IN
       /\ bfg' = [r.s EXCEPT !.ins = r.prog]
       /\ rpc' = IF r.prog # None THEN "exec" ELSE "while"
  /\ files' = Tail(files)
  /\ UNCHANGED <<shell, eof, lines>>
  /\ last' = last

\* one round of the loop of execute(), the user typing a line of Typed or
\* closing the input when the instruction asks for one
ExecStep(Typed, maxSteps) ==
  /\ rpc = "exec"
  /\ bfg.count < maxSteps
  /\ LET asks == Instruction(bfg, NoPos) = iosLeft /\ CallsInput(bfg, FALSE) IN
     \E rd \in {EOF} \cup {l \in Typed : asks /\ ~eof} :
       LET r == ExecIter(bfg, rd) IN
       /\ bfg' = r.s
       /\ eof' = (eof \/ (asks /\ rd = EOF))
       /\ rpc' = IF r.s.exc # NoExc THEN "error"
                 ELSE IF r.brk THEN "finish" ELSE "exec"
  /\ last' = [pc |-> bfg.pc, sym |-> Instruction(bfg, NoPos),
              sr |-> bfg.sr, val |-> Value(bfg)]
  /\ UNCHANGED <<files, shell, lines>>

\* execute() after its loop: the summary and the reset
Finish ==
  /\ rpc = "finish"
  /\ bfg' = ExecuteEnd(bfg)
  /\ rpc' = "while"
  /\ UNCHANGED <<files, shell, eof, lines, last>>

(***************************************************************************)
(* The interactive session.                                                *)
(***************************************************************************)
ShellSyms == {bytesRight, bytesLeft, ptrsRight, ptrsLeft, iosRight,
              loopsLeft, loopsRight, commentsLeft}

ShellLines == Strings(ShellSyms, MaxLineLen)

InitShell == \E strict \in BOOLEAN : InitRun(<<>>, FALSE, FALSE, strict)

NextShell ==
  \/ While
  \/ FetchShell(ShellLines, MaxLines, MaxProg)
  \/ ExecStep({}, MaxSteps)
  \/ Finish

SpecShell == InitShell /\ [][NextShell]_vars

(***************************************************************************)
(* Interactive sessions in which every line typed is non-empty, made of    *)
(* the symbols + - < > . [ ] and has its brackets balanced.                *)
(***************************************************************************)
LineSyms == {bytesRight, bytesLeft, ptrsLeft, ptrsRight, iosRight,
             loopsLeft, loopsRight}

BalancedLine(l) ==
  /\ Len(l) > 0
  /\ \A i \in 1..Len(l) : l[i] \in LineSyms
  /\ \A i \in 1..Len(l) :
       Cardinality({j \in 1..i : l[j] = loopsLeft})
         >= Cardinality({j \in 1..i : l[j] = loopsRight})
  /\ Cardinality({j \in 1..Len(l) : l[j] = loopsLeft})
       = Cardinality({j \in 1..Len(l) : l[j] = loopsRight})

BalancedLines == {l : l \in {x \in Strings(LineSyms, MaxLineLen) : BalancedLine(x)}}

NextLines ==
  \/ While
  \/ FetchShell(BalancedLines, MaxLines, MaxProg)
  \/ ExecStep({}, MaxSteps)
  \/ Finish

SpecLines == InitShell /\ [][NextLines]_vars

(***************************************************************************)
(* Interactive sessions of comments and nested loops.                      *)
(***************************************************************************)
NestSyms == {bytesRight, loopsLeft, loopsRight, commentsLeft}

NestLines == Strings(NestSyms, MaxNestLine)

NextNest ==
  \/ While
  \/ FetchShell(NestLines, MaxNestLines, MaxNestProg)
  \/ ExecStep({}, MaxNestSteps)
  \/ Finish

SpecNest == InitShell /\ [][NextNest]_vars

\* the scheduling of a running process: it takes its next step
FairNest == SpecNest /\ WF_vars(NextNest)

(***************************************************************************)
(* The batch session.                                                      *)
(***************************************************************************)
BatchSyms  == ShellSyms \cup {iosLeft}
InputChars == {65, 256}          \* "A", U+0100

InputLines == Strings(InputChars, MaxInput)

\* a script of one line
File(prog) == <<prog \o <<commentsRight>>>>

RECURSIVE FileLists(_, _, _)
\* the lists of at most n files with at most k symbols of S all together
FileLists(S, n, k) ==
  {<<>>} \cup
  (IF n = 0 THEN {}
   ELSE UNION {{<<File(p)>> \o fl : fl \in FileLists(S, n - 1, k - Len(p))} :
                 p \in Strings(S, k)})

InitBatch ==
  \E fl \in FileLists(BatchSyms, MaxFiles, MaxBatch) \ {<<>>} :
    \E persistent \in BOOLEAN, debug \in BOOLEAN, strict \in BOOLEAN :
      InitRun(fl, persistent, debug, strict)

NextBatch ==
  \/ While
  \/ RunEnd
  \/ FetchScript
  \/ ExecStep(InputLines, MaxSteps)
  \/ Finish

SpecBatch == InitBatch /\ [][NextBatch]_vars

(***************************************************************************)
(* Batch runs of one script of cell arithmetic and loops, followed long    *)
(* enough for a cell to take every value.                                  *)
(***************************************************************************)
ByteSyms == {bytesRight, bytesLeft, loopsLeft, loopsRight}

InitByte ==
  \E p \in Strings(ByteSyms, MaxByteProg) :
    InitRun(<<File(p)>>, FALSE, FALSE, FALSE)

NextByte ==
  \/ While
  \/ RunEnd
  \/ FetchScript
  \/ ExecStep({}, MaxByteSteps)
  \/ Finish

SpecByte == InitByte /\ [][NextByte]_vars

(***************************************************************************)
(* Strict batch runs of one script: the short programs that move the       *)
(* pointer, and the program +[->+] that walks the tape to its end, one     *)
(* cell to the right in each round of its loop.                            *)
(***************************************************************************)
StrictSyms == {ptrsRight, ptrsLeft, bytesRight}

Walker == <<bytesRight, loopsLeft, bytesLeft, ptrsRight, bytesRight, loopsRight>>

InitStrict ==
  \E p \in Strings(StrictSyms, MaxStrictProg) \cup {Walker} :
    InitRun(<<File(p)>>, FALSE, FALSE, TRUE)

NextStrict ==
  \/ While
  \/ RunEnd
  \/ FetchScript
  \/ ExecStep({}, MaxStrictSteps)
  \/ Finish

SpecStrict == InitStrict /\ [][NextStrict]_vars

(***************************************************************************)
(* Lazy batch runs of one multiplication script,                           *)
(* a times `+`, `[>`, b times `+`, `<-]>.`                                 *)
(***************************************************************************)
Repeat(c, n) == [i \in 1..n |-> c]

MulProg(a, b) ==
  Repeat(bytesRight, a) \o <<loopsLeft, ptrsRight>> \o Repeat(bytesRight, b)
    \o <<ptrsLeft, bytesLeft, loopsRight, ptrsRight, iosRight>>

\* more rounds of execute()'s loop than any of these programs takes
MulSteps == MaxMulA * (MaxMulB + 5) + 10

InitMul ==
  \E a \in 1..MaxMulA, b \in 0..MaxMulB, debug \in BOOLEAN :
    /\ a * b <= minmax[2]
    /\ InitRun(<<File(MulProg(a, b))>>, FALSE, debug, FALSE)

NextMul ==
  \/ While
  \/ RunEnd
  \/ FetchScript
  \/ ExecStep({}, MulSteps)
  \/ Finish

SpecMul == InitMul /\ [][NextMul]_vars

(***************************************************************************)
(* Bracket matching as the language defines it: the partner of the bracket *)
(* at position p of prog is the nearest position, after an opening bracket *)
(* and before a closing one, up to which as many brackets open as close.   *)
(***************************************************************************)
Opens(prog, a, b)  == Cardinality({i \in a..b : prog[i + 1] = loopsLeft})
Closes(prog, a, b) == Cardinality({i \in a..b : prog[i + 1] = loopsRight})

Partner(prog, p) ==
  IF prog[p + 1] = loopsLeft
  THEN LET Q == {q \in (p + 1)..(Len(prog) - 1) : Opens(prog, p, q) = Closes(prog, p, q)} IN
       IF Q = {} THEN NoPos ELSE CHOOSE q \in Q : \A r \in Q : q <= r
  ELSE LET Q == {q \in 0..(p - 1) : Opens(prog, q, p) = Closes(prog, q, p)} IN
       IF Q = {} THEN NoPos ELSE CHOOSE q \in Q : \A r \in Q : q >= r

AtBracket == /\ rpc = "exec"
             /\ Instruction(bfg, NoPos) \in {loopsLeft, loopsRight}

\* C1 (as claimed): once the input is closed at the shell's prompt, run()
\* comes to its end
C1_ShellEndsAtEof ==
  (shell /\ eof /\ bfg.ins = None) ~> (rpc = "done")

\* C2 (as claimed): every execution the shell starts finds pc at the length
\* the program had before the line was appended
C2_PcAtPreviousLength ==
  [][(shell /\ rpc = "fetch" /\ rpc' = "exec") => bfg'.pc = bfg.inslen]_vars

\* C5 (as claimed): the loop table is symmetric in every reachable state
C5_LoopTableSymmetric ==
  \A e \in bfg.loops : <<e[2], e[1]>> \in bfg.loops

\* C6 (as claimed): resolving a bracket whose partner exists records that
\* partner, in both directions
C6_ResolveRecordsPartner ==
  (AtBracket /\ dictGet(bfg.loops, bfg.pc) = NoPos
             /\ Partner(bfg.ins, bfg.pc) # NoPos)
  => /\ RegisterLoop(bfg).exc = NoExc
     /\ dictGet(RegisterLoop(bfg).loops, bfg.pc) = Partner(bfg.ins, bfg.pc)
     /\ dictGet(RegisterLoop(bfg).loops, Partner(bfg.ins, bfg.pc)) = bfg.pc

\* C7 (as claimed): executing a bracket without partner fails with a
\* SyntaxError naming its position and symbol, and records nothing
C7_DanglingBracketFails ==
  [][(AtBracket /\ Partner(bfg.ins, bfg.pc) = NoPos)
     => /\ rpc' = "error"
        /\ bfg'.exc.kind = "SyntaxError"
        /\ bfg'.exc.pos = bfg.pc
        /\ bfg'.exc.sym = Instruction(bfg, NoPos)
        /\ bfg'.loops = bfg.loops]_vars

\* the session in which the whole program is the first and only line
SingleLine(prog, strict) ==
  LET r == Shell(Setup(<<>>, FALSE, FALSE, strict), prog) IN
  Execute([r.s EXCEPT !.ins = r.prog], MaxSteps + 1)

\* C3: lines typed one at a time, each non-empty, bracket-balanced and made
\* of + - < > . [ ] only, leave the tape, the pointer and the output that the
\* same symbols typed as one single line leave
C3_LinesAsOneLine ==
  (/\ shell /\ rpc = "while" /\ ~eof
   /\ Len(lines) >= 1
   /\ \A i \in 1..Len(lines) : BalancedLine(lines[i]))
  => LET one == SingleLine(bfg.ins, bfg.strict) IN
     /\ one.exc = NoExc
     /\ one.mem = bfg.mem
     /\ one.sr = bfg.sr
     /\ one.printed = bfg.printed

C3_Witness ==
  /\ shell /\ rpc = "while"
  /\ lines = <<<<bytesRight>>, <<bytesRight>>, <<iosRight>>>>
  /\ bfg.printed = <<2, commentsRight>>
  /\ Value(bfg) = 2

\* C4 (as claimed): the summary of a tracing batch run of a straight-line
\* program of N symbols reports N instructions and N steps
StraightLine(prog) ==
  /\ prog # None
  /\ Len(prog) >= 1
  /\ \A i \in 1..Len(prog) :
       prog[i] \in {bytesRight, bytesLeft, ptrsLeft, ptrsRight, iosRight}

C4_SummaryCountsSymbols ==
  [][(/\ ~shell /\ bfg.debug /\ ~bfg.keep
      /\ rpc = "finish" /\ rpc' = "while"
      /\ StraightLine(bfg.ins))
     => /\ bfg'.summary[1] = Len(bfg.ins)
        /\ bfg'.summary[2] = Len(bfg.ins)]_vars

\* C8: in lazy mode the pointer stays inside the tape, a move to the right
\* past the last cell appends exactly one zero cell, and a move to the left
\* of cell 0 fails with Segfault
C8_PointerInsideTape ==
  /\ []((~bfg.strict /\ rpc # "error")
        => (0 <= bfg.sr /\ bfg.sr < bfg.mem.len /\ bfg.memlen = bfg.mem.len))
  /\ [][(~bfg.strict /\ rpc = "exec" /\ Instruction(bfg, NoPos) = ptrsRight)
        => /\ rpc' # "error"
           /\ bfg'.sr = bfg.sr + 1
           /\ bfg'.mem.len = IF bfg.sr + 1 = bfg.mem.len
                             THEN bfg.mem.len + 1 ELSE bfg.mem.len
           /\ bfg'.mem.nz = bfg.mem.nz]_vars
  /\ [][(~bfg.strict /\ rpc = "exec" /\ Instruction(bfg, NoPos) = ptrsLeft
                     /\ bfg.sr = 0)
        => /\ rpc' = "error"
           /\ bfg'.exc.kind = "Segfault"
           /\ bfg'.exc.msg = "negative data pointer value"]_vars

C8_Witness ==
  /\ ~bfg.strict /\ rpc # "error"
  /\ last.sym = ptrsRight /\ last.sr = 1
  /\ bfg.sr = 2 /\ bfg.mem.len = 3

\* C9: `-` takes a cell from v to v - 1, and from 0 to 255; `+` takes it
\* from v to v + 1, and leaves 255 at 255
C9_AdjustAtTheLimits ==
  [][(rpc = "exec" /\ Instruction(bfg, NoPos) \in {bytesLeft, bytesRight})
     => /\ Value(bfg) \in 0..255
        /\ Value(bfg') =
             IF Instruction(bfg, NoPos) = bytesLeft
             THEN (IF Value(bfg) > 0 THEN Value(bfg) - 1 ELSE 255)
             ELSE (IF Value(bfg) < 255 THEN Value(bfg) + 1 ELSE 255)]_vars

C9_Witness ==
  /\ last.sym = bytesRight /\ last.val = 255 /\ Value(bfg) = 255

\* C10 (as claimed): every cell of the tape holds a value of 0..255
C10_CellsAreBytes ==
  \A e \in bfg.mem.nz : e[2] \in 0..255

\* C11: in strict mode the tape has memmax = 30000 cells from the start of
\* the session on and for ever; a `>` with the pointer on the last cell fails
\* with Segfault and every other `>` moves the pointer by one
C11_StrictTapeIsFixed ==
  /\ [](bfg.strict => (bfg.mem.len = memmax /\ bfg.memlen = memmax))
  /\ [][(bfg.strict /\ rpc = "exec" /\ Instruction(bfg, NoPos) = ptrsRight)
        => IF bfg.sr + 1 >= memmax
           THEN /\ rpc' = "error"
                /\ bfg'.exc.kind = "Segfault"
                /\ bfg'.exc.msg = "data pointer value above the maximum (strict mode: on)"
                /\ bfg'.mem = bfg.mem
           ELSE /\ rpc' # "error"
                /\ bfg'.sr = bfg.sr + 1
                /\ bfg'.mem = bfg.mem]_vars

C11_Witness ==
  /\ bfg.strict /\ rpc = "error"
  /\ bfg.exc.kind = "Segfault"
  /\ last.sym = ptrsRight /\ last.sr = memmax - 1
  /\ bfg.mem.len = memmax

\* C12 (as claimed): an input instruction never fails, whatever line is
\* typed: either the input is closed and execution halts with the tape as it
\* was, or the cell takes the code of the next character not yet consumed,
\* which is the head of the remainder when there is one
C12_InputHasTwoOutcomes ==
  [][(rpc = "exec" /\ Instruction(bfg, NoPos) = iosLeft)
     => \/ /\ bfg.remain = None /\ eof'
           /\ rpc' = "finish" /\ bfg'.exc = NoExc
           /\ bfg'.mem = bfg.mem
        \/ /\ rpc' \in {"exec", "finish"} /\ bfg'.exc = NoExc
           /\ Value(bfg') \in InputChars
           /\ bfg.remain # None
                => /\ Value(bfg') = bfg.remain[1]
                   /\ bfg'.remain = IF Len(bfg.remain) = 1 THEN None
                                    ELSE Tail(bfg.remain)]_vars

\* C13: an input instruction that finds the input closed leaves the loop of
\* execute() without exception, with tape, pointer, pc and step counter as they
\* were; and whatever ended the loop, execute() then writes the summary (when
\* tracing) with one more step counted and resets: everything kept in
\* persistent mode, tape, pointer, pc, loop table and program cleared otherwise
C13_InputEofHalts ==
  /\ [][(rpc = "exec" /\ Instruction(bfg, NoPos) = iosLeft
                      /\ bfg.remain = None /\ eof')
        => /\ rpc' = "finish"
           /\ bfg'.exc = NoExc
           /\ bfg'.mem = bfg.mem /\ bfg'.sr = bfg.sr
           /\ bfg'.pc = bfg.pc /\ bfg'.count = bfg.count]_vars
  /\ [][(rpc = "finish")
        => /\ rpc' = "while"
           /\ bfg'.exc = NoExc
           /\ bfg'.summary = IF bfg.debug
                             THEN <<bfg.inslen, bfg.count + 1, bfg.memlen>>
                             ELSE bfg.summary
           /\ IF bfg.keep
              THEN /\ bfg'.mem = bfg.mem /\ bfg'.sr = bfg.sr /\ bfg'.pc = bfg.pc
                   /\ bfg'.loops = bfg.loops /\ bfg'.ins = bfg.ins
              ELSE /\ bfg'.mem = memNew(IF bfg.strict THEN memmax ELSE 1)
                   /\ bfg'.sr = 0 /\ bfg'.pc = 0
                   /\ bfg'.loops = {} /\ bfg'.ins = None]_vars

C13_Witness ==
  /\ rpc = "while" /\ eof /\ last.sym = iosLeft /\ last.val = 1
  /\ bfg.keep /\ bfg.debug
  /\ bfg.summary = <<2, 2, 1>>
  /\ Value(bfg) = 1 /\ bfg.pc = 1 /\ bfg.pc < bfg.inslen

IsPrefix(a, b) == Len(a) <= Len(b) /\ SubSeq(b, 1, Len(a)) = a

\* C14 (as claimed): in a persistent session every step leaves a program
\* that the previous program is a prefix of, and a length not below the
\* previous one
C14_ProgramOnlyGrows ==
  [][bfg.keep => /\ bfg'.ins # None
                 /\ IsPrefix(bfg.ins, bfg'.ins)
                 /\ bfg'.inslen >= bfg.inslen]_vars

\* the a and the b of the script of a times `+`, `[>`, b times `+`, `<-]>.`
MulA(prog) == (CHOOSE i \in 1..Len(prog) : prog[i] = loopsLeft) - 1
MulB(prog) == Len(prog) - MulA(prog) - 7

\* the rounds of execute()'s loop that the script takes: a for the first `+`,
\* one for `[`, b + 4 for each of the a rounds of its loop, two for `>.`
MulRounds(prog) == MulA(prog) + 1 + MulA(prog) * (MulB(prog) + 4) + 2

\* C15: the script of a times `+`, `[>`, b times `+`, `<-]>.` with a >= 1 and
\* a * b <= 255, run on a lazy tape, raises no error and comes to its end
\* after a + 1 + a * (b + 4) + 2 rounds, with cell 0 at 0, cell 1 at a * b and
\* the pointer on cell 1, having output the one character of code a * b; the
\* run then ends with that character and a newline on the standard output
C15_MultiplyLoop ==
  /\ rpc # "error"
  /\ rpc = "exec" => bfg.count < MulRounds(bfg.ins)
  /\ rpc = "finish"
       => /\ bfg.ins = MulProg(MulA(bfg.ins), MulB(bfg.ins))
          /\ MulA(bfg.ins) >= 1 /\ MulA(bfg.ins) * MulB(bfg.ins) <= 255
          /\ bfg.count = MulRounds(bfg.ins)
          /\ memGet(bfg.mem, 1) = MulA(bfg.ins) * MulB(bfg.ins)
          /\ memGet(bfg.mem, 0) = 0
          /\ bfg.sr = 1
          /\ bfg.pc = bfg.inslen
          /\ last.sym = iosRight /\ last.val = MulA(bfg.ins) * MulB(bfg.ins)
          /\ IF bfg.debug THEN bfg.stdout = chr(last.val)
                          ELSE bfg.printed = chr(last.val)
  /\ rpc = "done" => bfg.printed = chr(last.val) \o <<commentsRight>>

C15_Witness ==
  /\ rpc = "finish" /\ bfg.ins = MulProg(8, 8)
  /\ memGet(bfg.mem, 1) = 64 /\ bfg.sr = 1
  /\ bfg.printed = <<64>>

\* C16: loop(), when the bracket at pc is or gets recorded in the loop table,
\* sets pc to the position recorded for it if the bracket opens and the cell
\* is 0 or the bracket closes and the cell is not 0, and leaves pc alone in
\* the two other cases; tape and pointer are not touched
C16_JumpExactlyWhen ==
  AtBracket
  => LET r == Loop(bfg) IN
     r.exc = NoExc
     => /\ dictGet(r.loops, bfg.pc) \notin {NoPos, bfg.pc}
        /\ r.pc = IF \/ Instruction(bfg, NoPos) = loopsLeft  /\ Value(bfg) = 0
                     \/ Instruction(bfg, NoPos) = loopsRight /\ Value(bfg) # 0
                  THEN dictGet(r.loops, bfg.pc)
                  ELSE bfg.pc
        /\ r.mem = bfg.mem /\ r.sr = bfg.sr

C16_Witness ==
  /\ rpc = "exec"
  /\ last.sym = loopsRight /\ last.val = 2
  /\ dictGet(bfg.loops, last.pc) # NoPos
  /\ bfg.pc = dictGet(bfg.loops, last.pc) + 1

\* C17 (as claimed): a round of the dispatcher in which loop() jumped leaves
\* pc at the position recorded for the bracket, so that the bracket fetched
\* next is the matching one
C17_JumpIsNotAdvanced ==
  [][(/\ AtBracket
      /\ rpc' # "error"
      /\ \/ Instruction(bfg, NoPos) = loopsLeft  /\ Value(bfg) = 0
         \/ Instruction(bfg, NoPos) = loopsRight /\ Value(bfg) # 0)
     => /\ bfg'.pc = dictGet(bfg'.loops, bfg.pc)
        /\ Instruction(bfg', NoPos) \in {loopsLeft, loopsRight} \ {Instruction(bfg, NoPos)}]_vars

\* C18 (as claimed): in every reachable state pc is at most the length of the
\* program, and a round of the dispatcher is only begun with pc below it
C18_PcWithinProgram ==
  /\ 0 <= bfg.pc /\ bfg.pc <= bfg.inslen
  /\ rpc = "exec" => bfg.pc < bfg.inslen

\* C19: in persistent mode reset() without force changes nothing but buf,
\* which it sets to None; so the end of an execution, which is the summary
\* and then this reset, leaves tape, memlen, pointer, loop table, pc,
\* program and the remainder of the input as they were
C19_PersistentResetKeeps ==
  /\ [](bfg.keep => Reset(bfg, FALSE) = [bfg EXCEPT !.buf = None])
  /\ [][(rpc = "finish" /\ bfg.keep)
        => bfg' = [bfg EXCEPT !.buf = None,
                              !.count = @ + 1,
                              !.summary = IF bfg.debug
                                          THEN <<bfg.inslen, bfg.count + 1, bfg.memlen>>
                                          ELSE @]]_vars

C19_Witness ==
  /\ rpc = "while" /\ bfg.keep /\ bfg.count = 3
  /\ bfg.ins = <<bytesRight, ptrsRight>> /\ bfg.pc = 2
  /\ bfg.sr = 1 /\ bfg.mem = [len |-> 2, nz |-> {<<0, 1>>}]
  /\ bfg.buf = None

\* C20: in a batch run without persistence every execution starts with pc 0,
\* pointer 0, no loop recorded, a tape of zeros of one cell (30000 in strict
\* mode) and the step counter at 0, on the program read from the first file
\* still listed alone: its lines without those that start with `#`, each
\* stripped and cut at its first `#`
C20_FreshStartPerSource ==
  [][(~shell /\ ~bfg.keep /\ rpc = "fetch")
     => /\ rpc' = "exec"
        /\ bfg'.pc = 0 /\ bfg'.sr = 0 /\ bfg'.loops = {} /\ bfg'.count = 0
        /\ bfg'.mem = memNew(IF bfg.strict THEN memmax ELSE 1)
        /\ bfg'.memlen = bfg'.mem.len
        /\ bfg'.ins = joinLines(files[1])
        /\ bfg'.inslen = Len(bfg'.ins)
        /\ files' = Tail(files)]_vars

C20_Witness ==
  /\ rpc = "exec" /\ ~shell /\ ~bfg.keep /\ ~bfg.strict
  /\ last.sym = ptrsRight /\ last.sr = 0
  /\ bfg.ins = <<bytesRight>> /\ bfg.count = 0
  /\ bfg.pc = 0 /\ bfg.sr = 0 /\ bfg.mem = memNew(1)

====
